---- MODULE Spec2Model ----
(***************************************************************************)
(* Rural Health AI Triage (src/app.py): the rule-based scoring engine      *)
(* (calculate_risk_score, get_risk_level, get_recommendation), the JSON    *)
(* visit store (load_data, save_data and the append path of the "New       *)
(* Patient Visit" page) and the filter/sort of the "Patient Dashboard"     *)
(* page.                                                                   *)
(*                                                                         *)
(* Temperatures are kept in tenths of a degree Fahrenheit (98.6 -> 986,    *)
(* the threshold 101 -> 1010): the form steps the value by 0.1.            *)
(* The record fields gender, health_worker, visit_date and timestamp are   *)
(* copied into the record and never read by any rule; they are left out.   *)
(***************************************************************************)
EXTENDS Integers, Sequences, FiniteSets, TLC

\* ------------------------------------------------------------------ bounds
MaxTags == 2        \* longest symptom / condition list drawn from the small vocabularies
MaxVisits == 3      \* successful appends in the sequential specifications
MaxConcVisits == 2  \* appends started in the concurrent specification
ScoreMargin == 10   \* get_risk_level is called on every score from -ScoreMargin to 100 + ScoreMargin

MinScoreArg == 0 - ScoreMargin

MaxScoreArg == 100 + ScoreMargin

\* ------------------------------------------------------------ vocabularies
critical_symptoms == {"chest_pain", "breathlessness", "confusion", "severe_bleeding"}
moderate_symptoms == {"high_fever", "persistent_cough", "severe_pain"}
high_risk_conditions == {"heart_disease", "copd"}
moderate_risk_conditions == {"diabetes", "hypertension", "pregnancy"}

\* the options of the two multiselect widgets, in the order the form lists them
SymptomOptions ==
  << "fever", "cough", "cold", "chest_pain", "breathlessness", "headache",
     "body_ache", "vomiting", "diarrhea", "confusion", "severe_bleeding",
     "high_fever", "persistent_cough", "severe_pain", "dizziness" >>

ConditionOptions ==
  << "diabetes", "hypertension", "heart_disease", "asthma", "copd",
     "pregnancy", "tb", "kidney_disease", "none" >>

VitalKeys == {"bp_systolic", "bp_diastolic", "heart_rate", "temperature", "spo2"}

\* the fallbacks of the five vitals.get(...) calls, and the defaults of the form
VitalDefaults ==
  [bp_systolic |-> 120, bp_diastolic |-> 80, heart_rate |-> 75,
   temperature |-> 986, spo2 |-> 98]

\* ------------------------------------------------------------ list helpers
Range(s) == {s[i] : i \in 1..Len(s)}

Reverse(s) == [i \in 1..Len(s) |-> s[Len(s) + 1 - i]]

\* ---------------------------------------------------------- scoring engine
\* vitals.get(key, default)
VitalsGet(vitals, key, default) ==
  IF key \in DOMAIN vitals THEN vitals[key] ELSE default

\* lines 34-37
AgeRisk(age) ==
  IF age < 5 THEN 15 ELSE IF age > 60 THEN 20 ELSE 0

SymptomWeightWrong(symptom) ==
  IF symptom \in critical_symptoms THEN 25
  ELSE IF symptom \in moderate_symptoms THEN 5
  ELSE 5

\* the body of the loop of lines 43-49
SymptomWeight(symptom) ==
  IF symptom \in critical_symptoms THEN 25
  ELSE IF symptom \in moderate_symptoms THEN 10
  ELSE 5

\* the loop of lines 43-49, run over the list front to back
RECURSIVE SymptomLoop(_, _)
SymptomLoop(symptoms, score) ==
  IF symptoms = << >> THEN score
  ELSE SymptomLoop(Tail(symptoms), score + SymptomWeight(Head(symptoms)))

\* lines 52-67
VitalsRisk(vitals) ==
  LET bp_sys == VitalsGet(vitals, "bp_systolic", 120)
      bp_dia == VitalsGet(vitals, "bp_diastolic", 80)
      heart_rate == VitalsGet(vitals, "heart_rate", 75)
      temp == VitalsGet(vitals, "temperature", 986)
      spo2 == VitalsGet(vitals, "spo2", 98)
  IN  (IF bp_sys > 140 \/ bp_sys < 90 THEN 15 ELSE 0)
    + (IF bp_dia > 90 \/ bp_dia < 60 THEN 10 ELSE 0)
    + (IF heart_rate > 100 \/ heart_rate < 50 THEN 15 ELSE 0)
    + (IF temp > 1010 THEN 10 ELSE 0)
    + (IF spo2 < 94 THEN 20 ELSE 0)

\* the body of the loop of lines 73-77
ConditionWeight(condition) ==
  IF condition \in high_risk_conditions THEN 15
  ELSE IF condition \in moderate_risk_conditions THEN 10
  ELSE 0

\* the loop of lines 73-77
RECURSIVE ConditionLoop(_, _)
ConditionLoop(conditions, score) ==
  IF conditions = << >> THEN score
  ELSE ConditionLoop(Tail(conditions), score + ConditionWeight(Head(conditions)))

CapMissing(score) == score

\* min(score, 100) of line 79
Cap(score) == IF score < 100 THEN score ELSE 100

calculate_risk_score(age, symptoms, vitals, conditions) ==
  LET afterAge == 0 + AgeRisk(age)
      afterSymptoms == SymptomLoop(symptoms, afterAge)
      afterVitals == afterSymptoms + VitalsRisk(vitals)
      afterConditions == ConditionLoop(conditions, afterVitals)
  IN  Cap(afterConditions)

get_risk_level_strict(score) ==
  IF score > 60 THEN "HIGH"
  ELSE IF score > 30 THEN "MEDIUM"
  ELSE "LOW"

get_risk_level(score) ==
  IF score >= 60 THEN "HIGH"
  ELSE IF score >= 30 THEN "MEDIUM"
  ELSE "LOW"

\* the three fixed texts, without their leading pictographs
get_recommendation(risk_level, score) ==
  IF risk_level = "HIGH" THEN "URGENT REFERRAL TO PHC/HOSPITAL"
  ELSE IF risk_level = "MEDIUM" THEN "Schedule Follow-up within 48 hours"
  ELSE "Home Care with monitoring"

\* ------------------------------------------------------------- visit store
\* DATA_FILE on disk: absent, a parseable JSON array (data), or a document
\* json.load rejects (st = "corrupt": zero-length or cut short)
FileMissing == [st |-> "missing", data |-> << >>]

FileCorrupt == [st |-> "corrupt", data |-> << >>]

FileOf(records) == [st |-> "ok", data |-> records]

\* json.load returns normally (line 21) or the file does not exist (line 22)
Parseable(f) == f.st # "corrupt"

\* load_data when it returns: [] for a missing file, else the parsed array
load_data(f) == IF f.st = "missing" THEN << >> ELSE f.data

\* save_data when open and json.dump both complete: the whole list replaces the file
save_data(data_) == FileOf(data_)

NextIdZeroBased(stored) == Len(stored)

\* len(load_data()) + 1 of line 204
NextId(stored) == Len(stored) + 1

\* the vitals dict of lines 171-177
FormVitals(inp) ==
  [bp_systolic |-> inp.bp_sys, bp_diastolic |-> inp.bp_dia,
   heart_rate |-> inp.heart_rate, temperature |-> inp.temperature,
   spo2 |-> inp.spo2]

\* lines 180-182: the assessment shown to the user and embedded in the record
Assess(inp) ==
  LET risk_score == calculate_risk_score(inp.age, inp.symptoms, FormVitals(inp), inp.conditions)
      risk_level == get_risk_level(risk_score)
  IN  [risk_score |-> risk_score, risk_level |-> risk_level,
       recommendation |-> get_recommendation(risk_level, risk_score)]

\* the dict literal of lines 203-218
MakeVisit(id, inp, res) ==
  [id |-> id,
   patient_name |-> inp.patient_name,
   age |-> inp.age,
   village |-> inp.village,
   symptoms |-> inp.symptoms \o (IF inp.other_symptoms # "" THEN << inp.other_symptoms >> ELSE << >>),
   conditions |-> inp.conditions,
   vitals |-> FormVitals(inp),
   risk_score |-> res.risk_score,
   risk_level |-> res.risk_level,
   recommendation |-> res.recommendation]

\* ---------------------------------------------------------------- dashboard
Levels == {"HIGH", "MEDIUM", "LOW"}

\* list(set([d['village'] for d in data])) of line 265, as the set of options
VillagesOf(data_) == {data_[i].village : i \in 1..Len(data_)}

SelectIfEither(data_, filter_risk, filter_village) ==
  SelectSeq(data_, LAMBDA d : d.risk_level \in filter_risk \/ d.village \in filter_village)

\* the comprehension of lines 273-276
SelectVisits(data_, filter_risk, filter_village) ==
  SelectSeq(data_, LAMBDA d : d.risk_level \in filter_risk /\ d.village \in filter_village)

\* one insertion of a stable ascending sort: x goes after every element whose
\* key is not larger
InsertByScore(sorted, x) ==
  LET k == Cardinality({i \in 1..Len(sorted) : sorted[i].risk_score <= x.risk_score})
  IN  SubSeq(sorted, 1, k) \o << x >> \o SubSeq(sorted, k + 1, Len(sorted))

RECURSIVE StableSortAscending(_)
StableSortAscending(l) ==
  IF l = << >> THEN << >>
  ELSE InsertByScore(StableSortAscending(SubSeq(l, 1, Len(l) - 1)), l[Len(l)])

SortThenReverse(l) == Reverse(StableSortAscending(l))

\* list.sort(key=..., reverse=True) of line 279: the list is reversed, sorted
\* stably in ascending key order and reversed again
SortByScoreReverse(l) == Reverse(StableSortAscending(Reverse(l)))

\* ------------------------------------------------------------ form inputs
Sessions == {1, 2}

Names == {"", "Asha"}

Villages == {"", "X", "Y"}

\* clinical inputs of the form; every vital is within the widget's range
ChildProfile ==
  [age |-> 3, symptoms |-> << "high_fever" >>, other_symptoms |-> "rash",
   conditions |-> << >>, bp_sys |-> 120, bp_dia |-> 80, heart_rate |-> 75,
   temperature |-> 986, spo2 |-> 98]

AdultProfile ==
  [age |-> 30, symptoms |-> << "chest_pain", "fever" >>, other_symptoms |-> "",
   conditions |-> << "diabetes" >>, bp_sys |-> 120, bp_dia |-> 80, heart_rate |-> 75,
   temperature |-> 986, spo2 |-> 98]

ElderProfile ==
  [age |-> 70, symptoms |-> << "chest_pain", "breathlessness" >>, other_symptoms |-> "",
   conditions |-> << "heart_disease" >>, bp_sys |-> 120, bp_dia |-> 80, heart_rate |-> 75,
   temperature |-> 986, spo2 |-> 90]

Profiles == {ChildProfile, AdultProfile, ElderProfile}

Forms ==
  {[patient_name |-> n, village |-> v, age |-> p.age, symptoms |-> p.symptoms,
    other_symptoms |-> p.other_symptoms, conditions |-> p.conditions,
    bp_sys |-> p.bp_sys, bp_dia |-> p.bp_dia, heart_rate |-> p.heart_rate,
    temperature |-> p.temperature, spo2 |-> p.spo2] :
      n \in Names, v \in Villages, p \in Profiles}

\* arguments handed to calculate_risk_score directly
Restrict(f, D) == [k \in D |-> f[k]]

TagLists(vocab, n) ==
  {l \in UNION {[1..k -> vocab] : k \in 0..n} :
      \A i, j \in 1..Len(l) : i # j => l[i] # l[j]}

SymptomLists ==
  TagLists({"chest_pain", "high_fever", "fever"}, MaxTags)
    \cup {SymptomOptions, << "rash" >>, << "rash", "chest_pain" >>}

ConditionLists ==
  TagLists({"heart_disease", "diabetes", "none"}, MaxTags) \cup {ConditionOptions}

\* max_value of the age widget; min_value is 0
MaxAge == 120

\* the ages around the two thresholds, and the ends of the range
Ages == {0, 4, 5, 30, 60, 61, MaxAge}

AbnormalVitals ==
  [bp_systolic |-> 141, bp_diastolic |-> 91, heart_rate |-> 101,
   temperature |-> 1011, spo2 |-> 93]

VitalEdges ==
  [bp_systolic |-> {60, 89, 90, 140, 141, 220},
   bp_diastolic |-> {40, 59, 60, 90, 91, 140},
   heart_rate |-> {30, 49, 50, 100, 101, 200},
   temperature |-> {950, 1010, 1011, 1060},
   spo2 |-> {70, 93, 94, 100}]

\* any subset of the vitals present and abnormal; one vital at an edge value
\* with the others absent or at their defaults
VitalsRecords ==
  {Restrict(AbnormalVitals, D) : D \in SUBSET VitalKeys}
    \cup {Restrict(VitalDefaults, D) : D \in SUBSET VitalKeys}
    \cup UNION {{[j \in {k} |-> v] : v \in VitalEdges[k]} : k \in VitalKeys}
    \cup UNION {{[VitalDefaults EXCEPT ![k] = v] : v \in VitalEdges[k]} : k \in VitalKeys}

NoArgs == [age |-> 0, symptoms |-> << >>, vitals |-> Restrict(VitalDefaults, {}), conditions |-> << >>]

\* ------------------------------------------------------------------- state
VARIABLES
  file,         \* DATA_FILE
  pc,           \* per session: where the button handler of lines 166-224 stands
  form,         \* per session: the submitted widget values (a list of 0 or 1)
  result,       \* per session: risk_score, risk_level, recommendation of lines 180-182
  visit_data,   \* per session: the dict of line 203
  data,         \* per session: the list loaded at line 220
  outcome,      \* the message the latest run of the handler ended with
  log,          \* the records for which line 224 reported success, in order
  dash,         \* the latest run of the dashboard page: filter_risk, filter_village, filtered_data
  args,         \* arguments of a direct call of calculate_risk_score
  ret,          \* its return value, -1 before the call
  score_arg,    \* argument of a direct call of get_risk_level
  level_ret,    \* its return value, "" before the call
  rec_ret       \* the return value of get_recommendation, "" before the call

vars == << file, pc, form, result, visit_data, data, outcome, log, dash,
           args, ret, score_arg, level_ret, rec_ret >>

sessionVars == << pc, form, result, visit_data, data >>

engineVars == << args, ret, score_arg, level_ret, rec_ret >>

DashNone ==
  [shown |-> "none", filter_risk |-> {}, filter_village |-> {}, filtered_data |-> << >>]

AllIdle == \A s \in Sessions : pc[s] = "idle"

InFlight == Cardinality({s \in Sessions : pc[s] # "idle"})

SessionsInit ==
  /\ pc = [s \in Sessions |-> "idle"]
  /\ form = [s \in Sessions |-> << >>]
  /\ result = [s \in Sessions |-> << >>]
  /\ visit_data = [s \in Sessions |-> << >>]
  /\ data = [s \in Sessions |-> << >>]
  /\ outcome = "none"
  /\ log = << >>
  /\ dash = DashNone

EngineIdle ==
  /\ args = NoArgs
  /\ ret = -1
  /\ score_arg = 0
  /\ level_ret = ""
  /\ rec_ret = ""

\* first run: no file yet, or a file holding an empty array
StoreInit ==
  /\ file \in {FileMissing, FileOf(<< >>)}
  /\ SessionsInit
  /\ EngineIdle

\* the handler returns or raises: its locals are gone, the message stays
Finish(s, message) ==
  /\ pc' = [pc EXCEPT ![s] = "idle"]
  /\ form' = [form EXCEPT ![s] = << >>]
  /\ result' = [result EXCEPT ![s] = << >>]
  /\ visit_data' = [visit_data EXCEPT ![s] = << >>]
  /\ data' = [data EXCEPT ![s] = << >>]
  /\ outcome' = message

\* ------------------------------------------------------ the append handler
\* lines 166-168: a required field is empty
ClickInvalid(s, inp) ==
  /\ pc[s] = "idle"
  /\ inp.patient_name = "" \/ inp.village = ""
  /\ outcome' = "error"
  /\ dash' = DashNone
  /\ UNCHANGED << file, pc, form, result, visit_data, data, log >>
  /\ UNCHANGED engineVars

\* lines 169-200: the assessment is computed and shown
ClickValid(s, inp) ==
  /\ pc[s] = "idle"
  /\ ~(inp.patient_name = "" \/ inp.village = "")
  /\ form' = [form EXCEPT ![s] = << inp >>]
  /\ result' = [result EXCEPT ![s] = << Assess(inp) >>]
  /\ outcome' = "none"
  /\ pc' = [pc EXCEPT ![s] = "build"]
  /\ dash' = DashNone
  /\ UNCHANGED << file, visit_data, data, log >>
  /\ UNCHANGED engineVars

\* lines 203-218: the record, its id from a first load of the file
BuildVisit(s) ==
  /\ pc[s] = "build"
  /\ Parseable(file)
  /\ visit_data' = [visit_data EXCEPT ![s] =
        << MakeVisit(NextId(load_data(file)), form[s][1], result[s][1]) >>]
  /\ pc' = [pc EXCEPT ![s] = "load"]
  /\ UNCHANGED << file, form, result, data, outcome, log, dash >>
  /\ UNCHANGED engineVars

\* line 220: the second load
LoadData(s) ==
  /\ pc[s] = "load"
  /\ Parseable(file)
  /\ data' = [data EXCEPT ![s] = load_data(file)]
  /\ pc' = [pc EXCEPT ![s] = "append"]
  /\ UNCHANGED << file, form, result, visit_data, outcome, log, dash >>
  /\ UNCHANGED engineVars

\* line 221
AppendVisit(s) ==
  /\ pc[s] = "append"
  /\ data' = [data EXCEPT ![s] = Append(data[s], visit_data[s][1])]
  /\ pc' = [pc EXCEPT ![s] = "save"]
  /\ UNCHANGED << file, form, result, visit_data, outcome, log, dash >>
  /\ UNCHANGED engineVars

\* line 26: open(DATA_FILE, 'w') creates the file or cuts it to zero length
SaveOpen(s) ==
  /\ pc[s] = "save"
  /\ file' = FileCorrupt
  /\ pc' = [pc EXCEPT ![s] = "dump"]
  /\ UNCHANGED << form, result, visit_data, data, outcome, log, dash >>
  /\ UNCHANGED engineVars

\* line 27 and the close of the with block: the whole list is on disk
SaveDump(s) ==
  /\ pc[s] = "dump"
  /\ file' = save_data(data[s])
  /\ pc' = [pc EXCEPT ![s] = "success"]
  /\ UNCHANGED << form, result, visit_data, data, outcome, log, dash >>
  /\ UNCHANGED engineVars

\* line 224
ShowSuccess(s) ==
  /\ pc[s] = "success"
  /\ log' = Append(log, visit_data[s][1])
  /\ Finish(s, "success")
  /\ UNCHANGED << file, dash >>
  /\ UNCHANGED engineVars

\* json.load raises at line 204 or line 220; nothing catches it
LoadRaise(s) ==
  /\ pc[s] \in {"build", "load"}
  /\ ~Parseable(file)
  /\ Finish(s, "load_error")
  /\ UNCHANGED << file, log, dash >>
  /\ UNCHANGED engineVars

\* open raises at line 26: the file is as it was
SaveOpenRaise(s) ==
  /\ pc[s] = "save"
  /\ Finish(s, "write_error")
  /\ UNCHANGED << file, log, dash >>
  /\ UNCHANGED engineVars

\* json.dump or the close raises after the file was cut: what is on disk is
\* empty or ends mid-array
SaveDumpRaise(s) ==
  /\ pc[s] = "dump"
  /\ file' = FileCorrupt
  /\ Finish(s, "write_error")
  /\ UNCHANGED << log, dash >>
  /\ UNCHANGED engineVars

\* ------------------------------------------------------- the dashboard page
\* lines 229-232
DashboardEmpty ==
  /\ Parseable(file)
  /\ load_data(file) = << >>
  /\ dash' = [DashNone EXCEPT !.shown = "info"]
  /\ outcome' = "none"
  /\ UNCHANGED << file, log >>
  /\ UNCHANGED sessionVars
  /\ UNCHANGED engineVars

\* lines 229-279 with the two selections made by the user
DashboardList(filter_risk, filter_village) ==
  /\ Parseable(file)
  /\ load_data(file) # << >>
  /\ filter_village \subseteq VillagesOf(load_data(file))
  /\ dash' = [shown |-> "list", filter_risk |-> filter_risk,
              filter_village |-> filter_village,
              filtered_data |->
                SortByScoreReverse(SelectVisits(load_data(file), filter_risk, filter_village))]
  /\ outcome' = "none"
  /\ UNCHANGED << file, log >>
  /\ UNCHANGED sessionVars
  /\ UNCHANGED engineVars

\* line 229 raises
DashboardRaise ==
  /\ ~Parseable(file)
  /\ dash' = [DashNone EXCEPT !.shown = "exception"]
  /\ outcome' = "none"
  /\ UNCHANGED << file, log >>
  /\ UNCHANGED sessionVars
  /\ UNCHANGED engineVars

\* ------------------------------------------------------ direct engine calls
CallScore ==
  /\ ret = -1
  /\ ret' = calculate_risk_score(args.age, args.symptoms, args.vitals, args.conditions)
  /\ UNCHANGED << file, log, dash, outcome, args, score_arg, level_ret, rec_ret >>
  /\ UNCHANGED sessionVars

CallLevel ==
  /\ level_ret = ""
  /\ level_ret' = get_risk_level(score_arg)
  /\ UNCHANGED << file, log, dash, outcome, args, ret, score_arg, rec_ret >>
  /\ UNCHANGED sessionVars

CallRecommendation ==
  /\ level_ret # ""
  /\ rec_ret = ""
  /\ rec_ret' = get_recommendation(level_ret, score_arg)
  /\ UNCHANGED << file, log, dash, outcome, args, ret, score_arg, level_ret >>
  /\ UNCHANGED sessionVars

\* ----------------------------------------------------------- specifications
\* One request at a time, each handled to its end; every write completes.
SeqClickInvalid == \E s \in Sessions, inp \in Forms : AllIdle /\ ClickInvalid(s, inp)

SeqClickValid ==
  \E s \in Sessions, inp \in Forms :
    AllIdle /\ Len(log) < MaxVisits /\ ClickValid(s, inp)

StepBuildVisit == \E s \in Sessions : BuildVisit(s)

StepLoadData == \E s \in Sessions : LoadData(s)

StepAppendVisit == \E s \in Sessions : AppendVisit(s)

StepSaveOpen == \E s \in Sessions : SaveOpen(s)

StepSaveDump == \E s \in Sessions : SaveDump(s)

StepShowSuccess == \E s \in Sessions : ShowSuccess(s)

SeqDashboardEmpty == AllIdle /\ DashboardEmpty

SeqDashboardList ==
  \E filter_risk \in SUBSET Levels, filter_village \in SUBSET (Villages \ {""}) :
    AllIdle /\ DashboardList(filter_risk, filter_village)

SeqNext ==
  \/ SeqClickInvalid
  \/ SeqClickValid
  \/ StepBuildVisit
  \/ StepLoadData
  \/ StepAppendVisit
  \/ StepSaveOpen
  \/ StepSaveDump
  \/ StepShowSuccess
  \/ SeqDashboardEmpty
  \/ SeqDashboardList

SpecSeq == StoreInit /\ [][SeqNext]_vars

\* One request at a time; the storage medium may refuse a write.
StepLoadRaise == \E s \in Sessions : LoadRaise(s)

StepSaveOpenRaise == \E s \in Sessions : SaveOpenRaise(s)

StepSaveDumpRaise == \E s \in Sessions : SaveDumpRaise(s)

SeqDashboardRaise == AllIdle /\ DashboardRaise

FailNext ==
  \/ SeqClickInvalid
  \/ SeqClickValid
  \/ StepBuildVisit
  \/ StepLoadData
  \/ StepAppendVisit
  \/ StepSaveOpen
  \/ StepSaveDump
  \/ StepShowSuccess
  \/ StepLoadRaise
  \/ StepSaveOpenRaise
  \/ StepSaveDumpRaise
  \/ SeqDashboardRaise

SpecFail == StoreInit /\ [][FailNext]_vars

\* Two sessions served by two script runs whose steps interleave.
ConcClickInvalid == \E s \in Sessions, inp \in Forms : ClickInvalid(s, inp)

ConcClickValid ==
  \E s \in Sessions, inp \in Forms :
    Len(log) + InFlight < MaxConcVisits /\ ClickValid(s, inp)

ConcNext ==
  \/ ConcClickInvalid
  \/ ConcClickValid
  \/ StepBuildVisit
  \/ StepLoadData
  \/ StepAppendVisit
  \/ StepSaveOpen
  \/ StepSaveDump
  \/ StepShowSuccess
  \/ StepLoadRaise

SpecConc == StoreInit /\ [][ConcNext]_vars

\* calculate_risk_score called on each combination of the argument sets, and
\* on every age of the widget's range with nothing or everything selected.
ScoreInit ==
  /\ file = FileMissing
  /\ SessionsInit
  /\ \/ \E a \in Ages, sy \in SymptomLists, v \in VitalsRecords, c \in ConditionLists :
          args = [age |-> a, symptoms |-> sy, vitals |-> v, conditions |-> c]
     \/ \E a \in 0..MaxAge, sy \in {<< >>, SymptomOptions},
           v \in {Restrict(VitalDefaults, {}), AbnormalVitals},
           c \in {<< >>, ConditionOptions} :
          args = [age |-> a, symptoms |-> sy, vitals |-> v, conditions |-> c]
  /\ ret = -1
  /\ score_arg = 0
  /\ level_ret = ""
  /\ rec_ret = ""

ScoreNext == CallScore

SpecScore == ScoreInit /\ [][ScoreNext]_vars

\* get_risk_level and get_recommendation called on each score of the range.
LevelInit ==
  /\ file = FileMissing
  /\ SessionsInit
  /\ args = NoArgs
  /\ ret = -1
  /\ score_arg \in MinScoreArg..MaxScoreArg
  /\ level_ret = ""
  /\ rec_ret = ""

LevelNext ==
  \/ CallLevel
  \/ CallRecommendation

SpecLevel == LevelInit /\ [][LevelNext]_vars

\* ------------------------------------------------------------------ claims
Stored == load_data(file)

\* C1: appends made one after another, each run to completion, from a missing
\* or empty store: once N appends have reported success the store holds
\* exactly those N records, unchanged and in insertion order, and the record
\* at position k has id k.
C1_SequentialIds ==
  AllIdle =>
    /\ Parseable(file)
    /\ Len(Stored) = Len(log)
    /\ \A k \in 1..Len(log) : Stored[k] = log[k] /\ Stored[k].id = k

C1_ThreeAppended ==
  /\ AllIdle
  /\ Len(log) = 3
  /\ Len(Stored) = 3
  /\ Stored[3].id = 3

\* C2: when two sessions run the append path with their steps interleaved,
\* once both have reported success the store holds both records and their
\* ids differ.
C2_ConcurrentAppendsBothKept ==
  (AllIdle /\ Len(log) = 2) =>
    /\ Parseable(file)
    /\ log[1].id # log[2].id
    /\ \A k \in 1..2 : \E i \in 1..Len(Stored) : Stored[i] = log[k]

\* C3: every score calculate_risk_score returns lies in 0..100.
C3_ScoreInRange ==
  ret # -1 => ret \in 0..100

C3_EverythingSelected ==
  /\ ret = 100
  /\ args.age = 120
  /\ args.symptoms = SymptomOptions
  /\ args.conditions = ConditionOptions
  /\ args.vitals = AbnormalVitals

LevelRank(level) == IF level = "LOW" THEN 0 ELSE IF level = "MEDIUM" THEN 1 ELSE 2

\* C4: get_risk_level returns HIGH exactly for scores >= 60, MEDIUM exactly for
\* 30 <= score < 60 and LOW exactly for scores < 30, and a lower score never
\* gets a higher level.
C4_LevelBoundaries ==
  level_ret # "" =>
    /\ level_ret \in Levels
    /\ (level_ret = "HIGH") <=> (score_arg >= 60)
    /\ (level_ret = "MEDIUM") <=> (30 <= score_arg /\ score_arg < 60)
    /\ (level_ret = "LOW") <=> (score_arg < 30)
    /\ \A lower \in MinScoreArg..score_arg :
          LevelRank(get_risk_level(lower)) <= LevelRank(level_ret)

C4_SixtyIsHigh ==
  /\ score_arg = 60
  /\ level_ret = "HIGH"
  /\ rec_ret # ""

\* C5: a step in which the write of an append fails leaves on disk exactly
\* the collection that was there before the append.
C5_FailedWriteKeepsStore ==
  [][ (outcome' = "write_error" /\ \E s \in Sessions : pc[s] \in {"save", "dump"}) =>
        \A s \in Sessions :
          pc[s] \in {"save", "dump"} =>
            /\ Parseable(file')
            /\ load_data(file') = SubSeq(data[s], 1, Len(data[s]) - 1) ]_vars

\* C6: no run ends in an uncaught exception of load_data.
C6_LoadNeverRaises ==
  /\ outcome # "load_error"
  /\ dash.shown # "exception"

Matches(d) == d.risk_level \in dash.filter_risk /\ d.village \in dash.filter_village

\* C7: the list the dashboard shows holds exactly the stored records whose
\* level is selected and whose village is selected, each once; it is empty
\* when either selection is empty.
C7_FilterExact ==
  dash.shown = "list" =>
    /\ \A i \in 1..Len(dash.filtered_data) :
          /\ Matches(dash.filtered_data[i])
          /\ \E k \in 1..Len(Stored) : Stored[k] = dash.filtered_data[i]
    /\ \A k \in 1..Len(Stored) :
          Matches(Stored[k]) =>
            Cardinality({i \in 1..Len(dash.filtered_data) : dash.filtered_data[i] = Stored[k]}) = 1
    /\ (dash.filter_risk = {} \/ dash.filter_village = {}) => dash.filtered_data = << >>

C7_HighInX ==
  /\ dash.shown = "list"
  /\ dash.filter_risk = {"HIGH"}
  /\ dash.filter_village = {"X"}
  /\ Len(dash.filtered_data) = 1
  /\ Len(Stored) = 3
  /\ \E k \in 1..3 : Stored[k].risk_level = "HIGH" /\ Stored[k].village = "Y"
  /\ \E k \in 1..3 : Stored[k].risk_level # "HIGH" /\ Stored[k].village = "X"

PositionIn(l, x) == CHOOSE i \in 1..Len(l) : l[i] = x

\* C8: the list the dashboard shows is the selected records in non-increasing
\* order of risk_score, records of equal score in their stored order.
C8_StableDescending ==
  dash.shown = "list" =>
    LET selected == SelectVisits(Stored, dash.filter_risk, dash.filter_village)
        shown == dash.filtered_data
    IN  /\ Len(shown) = Len(selected)
        /\ Range(shown) = Range(selected)
        /\ \A i, j \in 1..Len(shown) :
              i < j =>
                /\ shown[i].risk_score >= shown[j].risk_score
                /\ shown[i].risk_score = shown[j].risk_score =>
                      PositionIn(selected, shown[i]) < PositionIn(selected, shown[j])

C8_TieBelowTop ==
  /\ dash.shown = "list"
  /\ Len(dash.filtered_data) = 3
  /\ Stored[1].risk_score = Stored[2].risk_score
  /\ Stored[3].risk_score > Stored[1].risk_score
  /\ dash.filtered_data = << Stored[3], Stored[1], Stored[2] >>

ExpectedScore(a) ==
  LET S == Range(a.symptoms)
      C == Range(a.conditions)
      v == [k \in VitalKeys |-> IF k \in DOMAIN a.vitals THEN a.vitals[k] ELSE VitalDefaults[k]]
      agePart == IF a.age < 5 THEN 15 ELSE IF a.age > 60 THEN 20 ELSE 0
      symptomPart == 25 * Cardinality(S \cap critical_symptoms)
                      + 10 * Cardinality(S \cap moderate_symptoms)
                      + 5 * Cardinality(S \ (critical_symptoms \cup moderate_symptoms))
      vitalPart == (IF v.bp_systolic > 140 \/ v.bp_systolic < 90 THEN 15 ELSE 0)
                    + (IF v.bp_diastolic > 90 \/ v.bp_diastolic < 60 THEN 10 ELSE 0)
                    + (IF v.heart_rate > 100 \/ v.heart_rate < 50 THEN 15 ELSE 0)
                    + (IF v.temperature > 1010 THEN 10 ELSE 0)
                    + (IF v.spo2 < 94 THEN 20 ELSE 0)
      conditionPart == 15 * Cardinality(C \cap high_risk_conditions)
                        + 10 * Cardinality(C \cap moderate_risk_conditions)
      total == agePart + symptomPart + vitalPart + conditionPart
  IN  IF total > 100 THEN 100 ELSE total

\* C9: the returned score is min(100, A + S + V + C) with the weights of the
\* rule tables and absent vitals at their baselines, and listing the symptoms
\* or the conditions in the opposite order gives the same score.
C9_ScoreFormula ==
  ret # -1 =>
    /\ ret = ExpectedScore(args)
    /\ ret = calculate_risk_score(args.age, Reverse(args.symptoms), args.vitals,
                                  Reverse(args.conditions))

C9_MixedBelowCap ==
  /\ ret = 85
  /\ args.age = 61
  /\ args.symptoms = << "high_fever", "chest_pain" >>
  /\ args.conditions = << "none", "diabetes" >>
  /\ DOMAIN args.vitals = {"spo2"}
  /\ args.vitals["spo2"] = 93

\* C10: every stored record carries the score the engine gives for the
\* record's own age, symptoms, vitals and conditions, the level of that score
\* and the text of that level.
C10_RecordMatchesItsInput ==
  Parseable(file) =>
    \A k \in 1..Len(Stored) :
      LET r == Stored[k]
          score == calculate_risk_score(r.age, r.symptoms, r.vitals, r.conditions)
      IN  /\ r.risk_score = score
          /\ r.risk_level = get_risk_level(score)
          /\ r.recommendation = get_recommendation(get_risk_level(score), score)

====
